---------------------------- MODULE Spec2Model ----------------------------
(***************************************************************************)
(* Alert synchronisation core of the surveillance dashboard.               *)
(*                                                                         *)
(* Two classes of the repository keep a client-side store of alerts:       *)
(*   AlertService            (src/unnamed/part_000): alertCache.active,    *)
(*                           alertCache.acknowledged, alertCache.all       *)
(*   SecurityAlertsDashboard (src/unnamed/part_001): activeAlerts,         *)
(*                           acknowledgedAlerts, alertsQueue               *)
(* The two objects share no state and neither calls the other, so every    *)
(* behaviour of a page that holds both is an interleaving of a behaviour   *)
(* of each.  The model follows one object at a time: `component` names the *)
(* class that was constructed.                                             *)
(*                                                                         *)
(* A JavaScript Map is modelled as a function over AlertIds whose value is *)
(* NoAlert where the Map has no entry.  Handlers run to completion (one    *)
(* action each); a fetch is a token in `inFlight` between the request and  *)
(* the continuation that handles its response.                             *)
(***************************************************************************)
EXTENDS Integers, Sequences, FiniteSets, TLC

VARIABLES
    component,          \* "AlertService" or "SecurityAlertsDashboard"
    alertCache,         \* AlertService.alertCache: [active, acknowledged, all]
    activeAlerts,       \* SecurityAlertsDashboard.activeAlerts
    acknowledgedAlerts, \* SecurityAlertsDashboard.acknowledgedAlerts
    alertsQueue,        \* SecurityAlertsDashboard.alertsQueue (ids)
    alertCounts,        \* UnifiedControlPanel.state.systemStatus.alerts, of
                        \* the panel that embeds the dashboard
    inFlight,           \* fetches whose response has not been handled yet
    sockets,            \* the WebSocket objects created: readyState of each
    socket,             \* AlertService.socket: the socket it refers to, 0 for null
    timers,             \* pending setTimeout callbacks: the delay of each
    reconnectTimer,     \* AlertService.reconnectTimer: a timer, 0 for null
    reconnectAttempts,  \* AlertService.reconnectAttempts
    reconnectDelay,     \* AlertService.reconnectDelay
    alertListeners,     \* AlertService.alertListeners: the callbacks of each
                        \* event, in the order of their registration
    calls,              \* the callback invocations the latest publish made
                        \* (observed)
    outbox,             \* get_active_alerts messages sent and not yet answered
    destroyed,          \* destroy() has been called
    dashAttempts        \* reconnects of the dashboard since a socket last
                        \* opened (observed; the class keeps no counter)

\* the connection, and the subscriptions
channelVars == <<sockets, socket, timers, reconnectTimer, reconnectAttempts,
                 reconnectDelay, outbox, destroyed, dashAttempts>>

connVars == <<channelVars, alertListeners, calls>>

vars == <<component, alertCache, activeAlerts, acknowledgedAlerts,
          alertsQueue, alertCounts, inFlight, connVars>>

-----------------------------------------------------------------------------
(* Bounds and input sets *)

MaxAll == 2        \* cap on the length of alertCache.all
MaxSnapshot == 2   \* longest alert list the server sends
MaxInFlight == 1   \* cap on concurrently pending fetches

AlertIds == {101, 102}
Statuses == {"new", "in_progress", "acknowledged", "resolved", "false_alarm"}

\* an alert as the store handlers see it: they read id and status only,
\* every other attribute is carried along unread
Alerts == [id : AlertIds, status : Statuses]

\* the value of a Map lookup that finds nothing, and of a missing payload
NoAlert == [id |-> 0, status |-> "none"]


\* what the server sends as a new alert and lists as an active alert
ActiveStatuses == {"new", "in_progress"}
ActiveAlerts == {alert \in Alerts : alert.status \in ActiveStatuses}

\* the lists of at most n alerts of a set, ids unique within a list
RECURSIVE ListsOf(_, _)
ListsOf(alerts, n) ==
    IF n = 0 THEN {<<>>}
    ELSE LET shorter == ListsOf(alerts, n - 1)
         IN  shorter \cup
             UNION {{Append(list, alert) :
                        alert \in {a \in alerts :
                                      \A i \in 1..Len(list) : list[i].id # a.id}} :
                    list \in {l \in shorter : Len(l) = n - 1}}

\* alert lists the server sends
AlertLists == ListsOf(Alerts, MaxSnapshot)
ActiveLists == ListsOf(ActiveAlerts, MaxSnapshot)

\* a list payload as the client finds it: a list, or missing (undefined,
\* or a body that is no list)
Undefined == [defined |-> FALSE, list |-> <<>>]
\* GET /alerts (the dashboard's apiEndpoint): alerts of every status
Payloads == [defined : {TRUE}, list : AlertLists] \cup {Undefined}
\* active_alerts message and GET /alerts/active
ActivePayloads == [defined : {TRUE}, list : ActiveLists] \cup {Undefined}

\* operator actions sent to POST /alerts/{id}/actions
Actions == {"acknowledge", "escalate"}

\* the JSON body of an action response: success, and alert when embedded
Results == [success : BOOLEAN, alert : Alerts \cup {NoAlert}]

Token(kind, id, action) == [kind |-> kind, id |-> id, action |-> action]

EmptyMap == [i \in AlertIds |-> NoAlert]

Has(map, id) == map[id] # NoAlert
Keys(map) == {i \in AlertIds : Has(map, i)}
Ids(alerts) == {alerts[i].id : i \in 1..Len(alerts)}
Range(seq) == {seq[i] : i \in 1..Len(seq)}

\* alertCache.all is kept as the list of its entries' ids, in order: the
\* only read of an entry in the source is findIndex's a.id.  A history page
\* (data.alerts of GET /alerts) is likewise given by its ids.
HistoryPages ==
    {[i \in 1..Len(list) |-> list[i].id] :
        list \in ListsOf([id : AlertIds, status : {"new"}], MaxSnapshot)}

\* where an id is held
WhereOf(act, ack, id) ==
    IF Has(act, id) /\ Has(ack, id) THEN "both"
    ELSE IF Has(act, id) THEN "active"
    ELSE IF Has(ack, id) THEN "settled"
    ELSE "unseen"

-----------------------------------------------------------------------------
(* AlertService: the store operations, as functions of alertCache *)

\* Array.prototype.findIndex(a => a.id === id): first match, 0 for -1
FindIndex(all, id) ==
    IF \E i \in 1..Len(all) : all[i] = id
    THEN CHOOSE i \in 1..Len(all) :
            /\ all[i] = id
            /\ \A j \in 1..(i - 1) : all[j] # id
    ELSE 0

\* alerts.forEach(alert => map.set(alert.id, alert))
RECURSIVE SetEach(_, _)
SetEach(map, alerts) ==
    IF alerts = <<>> THEN map
    ELSE SetEach([map EXCEPT ![Head(alerts).id] = Head(alerts)], Tail(alerts))

\* processNewAlert: alert.id of a missing alert throws before any write
processNewAlert(cache, alert) ==
    IF alert = NoAlert THEN cache
    ELSE [cache EXCEPT !.active[alert.id] = alert,
                       !.all = <<alert.id>> \o @]

\* processAlertUpdate
processAlertUpdate(cache, alert) ==
    IF alert = NoAlert THEN cache
    ELSE LET moved ==
                 IF alert.status \in {"acknowledged", "resolved"}
                 THEN [cache EXCEPT !.active[alert.id] = NoAlert,
                                    !.acknowledged[alert.id] = alert]
                 ELSE IF Has(cache.active, alert.id)
                      THEN [cache EXCEPT !.active[alert.id] = alert]
                      ELSE IF Has(cache.acknowledged, alert.id)
                           THEN [cache EXCEPT !.acknowledged[alert.id] = alert]
                           ELSE cache
             index == FindIndex(cache.all, alert.id)
         IN  IF index # 0
             THEN [moved EXCEPT !.all[index] = alert.id]
             ELSE moved

\* processActiveAlerts: the clear happens before alerts.forEach can throw
processActiveAlerts(cache, payload) ==
    IF payload.defined
    THEN [cache EXCEPT !.active = SetEach(EmptyMap, payload.list)]
    ELSE [cache EXCEPT !.active = EmptyMap]

\* the continuation of getAlert's fetch
getAlertStore(cache, alertId, alert) ==
    IF alert.status = "new" \/ alert.status = "in_progress"
    THEN [cache EXCEPT !.active[alertId] = alert]
    ELSE [cache EXCEPT !.acknowledged[alertId] = alert]

\* the continuation of takeAction's fetch: if (result.alert) ...
takeActionThen(cache, result) ==
    IF result.alert # NoAlert
    THEN processAlertUpdate(cache, result.alert)
    ELSE cache

-----------------------------------------------------------------------------
(* SecurityAlertsDashboard: the store operations, as functions of the      *)
(* record dash = [activeAlerts, acknowledgedAlerts, alertsQueue]           *)

\* statuses UnifiedControlPanel.executeAction passes to updateAlertStatus
PanelStatuses == {"acknowledged", "escalated"}

Dash(act, ack, queue) ==
    [activeAlerts |-> act, acknowledgedAlerts |-> ack, alertsQueue |-> queue]

\* alertsQueue.filter(id => id !== alertId)
RECURSIVE Filter(_, _)
Filter(queue, alertId) ==
    IF queue = <<>> THEN <<>>
    ELSE IF Head(queue) = alertId THEN Filter(Tail(queue), alertId)
    ELSE <<Head(queue)>> \o Filter(Tail(queue), alertId)

\* updateAlert
updateAlert(dash, alertId, alertData) ==
    IF Has(dash.activeAlerts, alertId)
    THEN [dash EXCEPT !.activeAlerts[alertId] = alertData]
    ELSE IF Has(dash.acknowledgedAlerts, alertId)
         THEN [dash EXCEPT !.acknowledgedAlerts[alertId] = alertData]
         ELSE dash

\* addAlert with push in place of unshift: the new id goes to the back
addAlertAppends(dash, alert) ==
    IF alert = NoAlert THEN dash
    ELSE IF Has(dash.activeAlerts, alert.id)
    THEN updateAlert(dash, alert.id, alert)
    ELSE [dash EXCEPT !.activeAlerts[alert.id] = alert,
                      !.alertsQueue = Append(@, alert.id)]

\* addAlert
addAlert(dash, alert) ==
    IF alert = NoAlert THEN dash   \* alert.id throws before any write
    ELSE IF Has(dash.activeAlerts, alert.id)
    THEN updateAlert(dash, alert.id, alert)
    ELSE [dash EXCEPT !.activeAlerts[alert.id] = alert,
                      !.alertsQueue = <<alert.id>> \o @]

\* the body of data.forEach in loadAlerts
RECURSIVE Classify(_, _)
Classify(dash, data) ==
    IF data = <<>> THEN dash
    ELSE LET alert == Head(data)
         IN  Classify(
                 IF alert.status = "acknowledged"
                 THEN [dash EXCEPT !.acknowledgedAlerts[alert.id] = alert]
                 ELSE [dash EXCEPT !.activeAlerts[alert.id] = alert,
                                   !.alertsQueue = Append(@, alert.id)],
                 Tail(data))

\* loadAlerts' continuation without its alertsQueue = []
loadAlertsThenKeepsQueue(dash, payload) ==
    IF payload.defined
    THEN Classify(Dash(EmptyMap, EmptyMap, dash.alertsQueue), payload.list)
    ELSE Dash(EmptyMap, EmptyMap, dash.alertsQueue)

\* the continuation of loadAlerts' fetch: the three clears happen before
\* data.forEach can throw on a body that is not a list
loadAlertsThen(dash, payload) ==
    IF payload.defined
    THEN Classify(Dash(EmptyMap, EmptyMap, <<>>), payload.list)
    ELSE Dash(EmptyMap, EmptyMap, <<>>)

\* acknowledgeAlert without its alertsQueue.filter
acknowledgeAlertKeepsQueue(dash, alertId) ==
    IF ~Has(dash.activeAlerts, alertId) THEN dash
    ELSE LET alert == [dash.activeAlerts[alertId] EXCEPT !.status = "acknowledged"]
         IN  [dash EXCEPT !.acknowledgedAlerts[alertId] = alert,
                          !.activeAlerts[alertId] = NoAlert]

\* acknowledgeAlert
acknowledgeAlert(dash, alertId) ==
    IF ~Has(dash.activeAlerts, alertId) THEN dash
    ELSE LET alert == [dash.activeAlerts[alertId] EXCEPT !.status = "acknowledged"]
         IN  [dash EXCEPT !.acknowledgedAlerts[alertId] = alert,
                          !.activeAlerts[alertId] = NoAlert,
                          !.alertsQueue = Filter(@, alertId)]

\* the continuation of executeAction's fetch: data.alert is never read
executeActionThen(dash, action, alertId, data) ==
    IF data.success /\ action = "acknowledge"
    THEN acknowledgeAlert(dash, alertId)
    ELSE dash

\* updateAlertStatus
updateAlertStatus(dash, alertId, status) ==
    LET wasActive == Has(dash.activeAlerts, alertId)
        found == IF wasActive THEN dash.activeAlerts[alertId]
                 ELSE dash.acknowledgedAlerts[alertId]
        alert == [found EXCEPT !.status = status]
    IN  IF found = NoAlert THEN dash
        ELSE IF status = "acknowledged" /\ wasActive
        THEN [dash EXCEPT !.acknowledgedAlerts[alertId] = alert,
                          !.activeAlerts[alertId] = NoAlert,
                          !.alertsQueue = Filter(@, alertId)]
        ELSE IF status # "acknowledged" /\ ~wasActive
        THEN [dash EXCEPT !.activeAlerts[alertId] = alert,
                          !.acknowledgedAlerts[alertId] = NoAlert,
                          !.alertsQueue = <<alertId>> \o @]
        ELSE IF wasActive
        THEN [dash EXCEPT !.activeAlerts[alertId] = alert]
        ELSE [dash EXCEPT !.acknowledgedAlerts[alertId] = alert]

-----------------------------------------------------------------------------
(* Push channel: sockets and timers *)

MaxChannels == 2    \* cap on sockets not yet closed plus pending timers
MaxOutbox == 1      \* cap on unanswered get_active_alerts messages
MaxObserved == 11   \* dashAttempts stops counting here

maxReconnectAttempts == 10
InitialDelay == 1000       \* this.reconnectDelay, ms
DelayCap == 30000          \* Math.min(30000, ...), ms
DashReconnectDelay == 5000 \* the dashboard's fixed setTimeout delay, ms

\* delays are kept in units of 1/Scale ms: 1000 * 1.5^n is a whole number of
\* them for every n the code reaches (n <= 9)
Scale == 2^9

SocketIds == 1..MaxChannels
\* setTimeout never returns the id of the timer whose callback is running:
\* one id more than there can be pending timers
TimerIds == 1..(MaxChannels + 1)

NoTimer == [pending |-> FALSE, delay |-> 0]
Timer(delay) == [pending |-> TRUE, delay |-> delay]

\* sockets whose events can still be delivered
Unclosed(socks) == {s \in SocketIds : socks[s] # "closed"}
\* sockets with readyState CONNECTING or OPEN
Live(socks) == {s \in SocketIds : socks[s] \in {"connecting", "open"}}
PendingTimers(tm) == {t \in TimerIds : tm[t].pending}

Min(a, b) == IF a <= b THEN a ELSE b

\* the backoff with factor 2 in place of 1.5
BackoffDelayDoubling(delay, attempts) ==
    Min(DelayCap * Scale, delay * (2 ^ attempts) * Scale)

\* Math.min(30000, this.reconnectDelay * Math.pow(1.5, this.reconnectAttempts))
BackoffDelay(delay, attempts) ==
    Min(DelayCap * Scale, delay * (3 ^ attempts) * (2 ^ (9 - attempts)))

\* the connection fields of AlertService as one record
Svc(socks, sock, tm, handle, attempts, delay) ==
    [sockets |-> socks, socket |-> sock, timers |-> tm,
     reconnectTimer |-> handle, reconnectAttempts |-> attempts,
     reconnectDelay |-> delay]

\* scheduleReconnect that gives up at once
scheduleReconnectNever(svc, fired) == svc

\* scheduleReconnect; `fired` is the timer whose callback is running, 0 for
\* none
scheduleReconnect(svc, fired) ==
    IF svc.reconnectAttempts >= maxReconnectAttempts THEN svc
    ELSE LET t == CHOOSE t \in TimerIds : ~svc.timers[t].pending /\ t # fired
             delay == BackoffDelay(svc.reconnectDelay, svc.reconnectAttempts)
         IN  [svc EXCEPT !.timers[t] = Timer(delay), !.reconnectTimer = t]

\* connect; ok is FALSE when new WebSocket(...) throws
connect(svc, ok, fired) ==
    LET cleared ==
            IF svc.reconnectTimer # 0
            THEN [svc EXCEPT !.timers[svc.reconnectTimer] = NoTimer,
                             !.reconnectTimer = 0]
            ELSE svc
    IN  IF ok
        THEN LET s == CHOOSE s \in SocketIds : cleared.sockets[s] = "closed"
             IN  [cleared EXCEPT !.sockets[s] = "connecting", !.socket = s]
        ELSE scheduleReconnect(cleared, fired)

\* destroy, on the connection fields
destroy(svc) ==
    LET closedSocket ==
            IF svc.socket # 0 /\ svc.sockets[svc.socket] \in {"connecting", "open"}
            THEN [svc EXCEPT !.sockets[svc.socket] = "closing"]
            ELSE svc
        nulled == [closedSocket EXCEPT !.socket = 0]
    IN  IF nulled.reconnectTimer # 0
        THEN [nulled EXCEPT !.timers[nulled.reconnectTimer] = NoTimer,
                            !.reconnectTimer = 0]
        ELSE nulled

\* the fields before the constructor calls connect()
NewService ==
    Svc([s \in SocketIds |-> "closed"], 0, [t \in TimerIds |-> NoTimer],
        0, 0, InitialDelay)

-----------------------------------------------------------------------------
(* Subscriptions: alertListeners is a Map from an event to the Set of its   *)
(* callbacks.  A Set keeps insertion order and holds a value once: it is a  *)
(* sequence without repetition, empty where the Map has no entry.           *)

\* the events subscribe documents
EventNames == {"new", "update", "load", "history", "*"}

\* the callback functions of the subscribers; the ones in ThrowingCallbacks
\* throw when they are invoked
Callbacks == {1, 2}
ThrowingCallbacks == {2}

NoListeners == [event \in EventNames |-> <<>>]

\* Set.prototype.add
SetAdd(listeners, callback) ==
    IF callback \in Range(listeners) THEN listeners
    ELSE Append(listeners, callback)

\* a removal that would fill the hole with the last callback
SetDeleteSwapping(listeners, callback) ==
    IF callback \notin Range(listeners) THEN listeners
    ELSE LET hole == CHOOSE i \in 1..Len(listeners) : listeners[i] = callback
             last == listeners[Len(listeners)]
         IN  SubSeq([listeners EXCEPT ![hole] = last], 1, Len(listeners) - 1)

\* Set.prototype.delete
SetDelete(listeners, callback) ==
    SelectSeq(listeners, LAMBDA c : c # callback)

\* subscribe, and the function it returns
subscribe(map, event, callback) == [map EXCEPT ![event] = SetAdd(@, callback)]
unsubscribe(map, event, callback) == [map EXCEPT ![event] = SetDelete(@, callback)]

\* the data of an event: the alert of 'new' and 'update', the active alerts
\* of 'load', the page of 'history'
AlertData(alert) == [alert |-> alert, active |-> EmptyMap, page |-> <<>>]
LoadData(active) == [alert |-> NoAlert, active |-> active, page |-> <<>>]
HistoryData(page) == [alert |-> NoAlert, active |-> EmptyMap, page |-> page]

\* one invocation: callback(data) of a listener registered for the event
\* (no event is passed: "none"), callback(event, data) of one registered
\* for '*'
Call(callback, registered, event, data) ==
    [callback |-> callback, registered |-> registered, event |-> event,
     data |-> data]

\* a forEach without the try/catch: the first callback that throws ends it
RECURSIVE InvokeEachUntilThrow(_, _, _, _)
InvokeEachUntilThrow(listeners, registered, event, data) ==
    IF listeners = <<>> THEN <<>>
    ELSE IF Head(listeners) \in ThrowingCallbacks
         THEN <<Call(Head(listeners), registered, event, data)>>
         ELSE <<Call(Head(listeners), registered, event, data)>>
              \o InvokeEachUntilThrow(Tail(listeners), registered, event, data)

\* listeners.forEach(callback => { try { callback(...) } catch { log } })
RECURSIVE InvokeEach(_, _, _, _)
InvokeEach(listeners, registered, event, data) ==
    IF listeners = <<>> THEN <<>>
    ELSE <<Call(Head(listeners), registered, event, data)>>
         \o InvokeEach(Tail(listeners), registered, event, data)

\* a publish that would leave out the '*' callbacks
notifyAlertListenersOfEventOnly(map, event, data) ==
    InvokeEach(map[event], event, "none", data)

\* notifyAlertListeners: the invocations it makes, in order
notifyAlertListeners(map, event, data) ==
    InvokeEach(map[event], event, "none", data)
    \o InvokeEach(map["*"], "*", event, data)

\* what a handler passes to notifyAlertListeners; NoEvent when it does not
\* get to the call
Event(event, data) == [event |-> event, data |-> data]
NoEvent == Event("none", AlertData(NoAlert))

\* processNewAlert and processAlertUpdate: alert.id / alert.status of a
\* missing alert throws before the call
processNewAlertEvent(alert) ==
    IF alert = NoAlert THEN NoEvent ELSE Event("new", AlertData(alert))

processAlertUpdateEvent(alert) ==
    IF alert = NoAlert THEN NoEvent ELSE Event("update", AlertData(alert))

\* a 'load' that would carry the active alerts as they were before the
\* replacement
processActiveAlertsEventStale(cache, payload) ==
    IF payload.defined THEN Event("load", LoadData(cache.active)) ELSE NoEvent

\* processActiveAlerts: Array.from(this.alertCache.active.values()), not
\* reached when alerts.forEach threw
processActiveAlertsEvent(cache, payload) ==
    IF payload.defined
    THEN Event("load", LoadData(processActiveAlerts(cache, payload).active))
    ELSE NoEvent

\* the continuation of loadAllAlerts' fetch
loadAllAlertsEvent(page) == Event("history", HistoryData(page))

\* the continuation of takeAction's fetch
takeActionEvent(result) ==
    IF result.alert # NoAlert THEN processAlertUpdateEvent(result.alert)
    ELSE NoEvent

-----------------------------------------------------------------------------
(* UnifiedControlPanel: the alert counts.  The panel embeds a               *)
(* SecurityAlertsDashboard (alertsPanel) and shows, per priority, the       *)
(* counts that GET /alerts/count returned last.                             *)

Priorities == {"high", "medium", "low"}

\* the priority the server gave an alert; the handlers carry it unread
\* (only playAlertSound reads payload.priority)
PriorityOf(id) == IF id = 101 THEN "high" ELSE "medium"

\* state.systemStatus.alerts as the constructor leaves it
NoCounts == [priority \in Priorities |-> 0]

\* the bodies GET /alerts/count can answer with
CountsData == [Priorities -> 0..Cardinality(AlertIds)]

\* the counts of a collection of alerts, by priority
Counts(alerts) ==
    [priority \in Priorities |->
        Cardinality({id \in Keys(alerts) : PriorityOf(id) = priority})]

-----------------------------------------------------------------------------
(* State after construction *)

EmptyCache == [active |-> EmptyMap, acknowledged |-> EmptyMap, all |-> <<>>]

\* new AlertService(): empty cache, no fetch issued
\* new SecurityAlertsDashboard(): empty collections, initialize() has
\* called loadAlerts(), whose fetch is pending
\* the constructor's connect() / connectWebSocket() has created the first
\* socket, or (AlertService, ok = FALSE) new WebSocket has thrown
Constructed(ok) ==
    /\ component \in {"AlertService", "SecurityAlertsDashboard"}
    /\ alertCache = EmptyCache
    /\ activeAlerts = EmptyMap
    /\ acknowledgedAlerts = EmptyMap
    /\ alertsQueue = <<>>
    /\ alertCounts = NoCounts
    /\ inFlight = IF component = "SecurityAlertsDashboard"
                  THEN {Token("loadAlerts", 0, "none")}
                  ELSE {}
    /\ LET svc == connect(NewService, ok, 0)
       IN  /\ sockets = svc.sockets
           /\ socket = IF component = "AlertService" THEN svc.socket ELSE 0
           /\ timers = svc.timers
           /\ reconnectTimer = svc.reconnectTimer
           /\ reconnectAttempts = svc.reconnectAttempts
           /\ reconnectDelay = svc.reconnectDelay
    /\ alertListeners = NoListeners
    /\ calls = <<>>
    /\ outbox = 0
    /\ destroyed = FALSE
    /\ dashAttempts = 0

Init == Constructed(TRUE)

\* the dashboard's collections, and the counts of the panel around it
dashVars == <<activeAlerts, acknowledgedAlerts, alertsQueue, alertCounts>>

IsService == component = "AlertService"
IsDashboard == component = "SecurityAlertsDashboard"

\* a fetch may be issued while the cap on pending fetches allows it
CanFetch(token) == Cardinality(inFlight \cup {token}) <= MaxInFlight

\* this.notifyAlertListeners(event, data) as part of a handler
Publish(published) ==
    IF published = NoEvent THEN UNCHANGED calls
    ELSE calls' = notifyAlertListeners(alertListeners, published.event,
                                       published.data)

-----------------------------------------------------------------------------
(* AlertService: handlers *)

\* handleSocketMessage, case 'new_alert'
SvcNewAlert(alert) ==
    /\ IsService
    /\ Len(alertCache.all) < MaxAll
    /\ alertCache' = processNewAlert(alertCache, alert)
    /\ Publish(processNewAlertEvent(alert))
    /\ UNCHANGED <<channelVars, alertListeners, component, dashVars, inFlight>>

\* handleSocketMessage, case 'update_alert'
SvcUpdateAlert(alert) ==
    /\ IsService
    /\ alertCache' = processAlertUpdate(alertCache, alert)
    /\ Publish(processAlertUpdateEvent(alert))
    /\ UNCHANGED <<channelVars, alertListeners, component, dashVars, inFlight>>

\* processActiveAlerts as a step: the replacement, then loadAllAlerts()
\* issues its fetch, then 'load' is published with the active alerts (the
\* last two are not reached when alerts.forEach threw)
SvcApplySnapshot(payload, pending) ==
    LET history == Token("history", 0, "none")
    IN  /\ alertCache' = processActiveAlerts(alertCache, payload)
        /\ inFlight' = IF payload.defined THEN pending \cup {history}
                       ELSE pending
        /\ Publish(processActiveAlertsEvent(alertCache, payload))

\* handleSocketMessage, case 'active_alerts'
SvcActiveAlerts(payload) ==
    /\ IsService
    /\ CanFetch(Token("history", 0, "none"))
    /\ SvcApplySnapshot(payload, inFlight)
    /\ UNCHANGED <<channelVars, alertListeners, component, dashVars>>

\* handleSocketMessage, default case and JSON.parse failure
SvcBadMessage ==
    /\ IsService
    /\ UNCHANGED <<connVars, component, alertCache, dashVars, inFlight>>

\* loadActiveAlerts up to its first await
SvcLoadActiveAlerts ==
    /\ IsService
    /\ CanFetch(Token("active", 0, "none"))
    /\ inFlight' = inFlight \cup {Token("active", 0, "none")}
    /\ UNCHANGED <<connVars, component, alertCache, dashVars>>

\* a pull that would merge the response into the active alerts instead of
\* replacing them
SvcLoadActiveAlertsThenMerging(payload) ==
    /\ IsService
    /\ Token("active", 0, "none") \in inFlight
    /\ alertCache' = [alertCache EXCEPT !.active = SetEach(@, payload.list)]
    /\ inFlight' = inFlight \ {Token("active", 0, "none")}
    /\ Publish(Event("load", LoadData(alertCache'.active)))
    /\ UNCHANGED <<channelVars, alertListeners, component, dashVars>>

\* loadActiveAlerts after response.json()
SvcLoadActiveAlertsThen(payload) ==
    /\ IsService
    /\ Token("active", 0, "none") \in inFlight
    /\ SvcApplySnapshot(payload, inFlight \ {Token("active", 0, "none")})
    /\ UNCHANGED <<channelVars, alertListeners, component, dashVars>>

\* loadActiveAlerts: fetch rejected or !response.ok
SvcLoadActiveAlertsCatch ==
    /\ IsService
    /\ Token("active", 0, "none") \in inFlight
    /\ inFlight' = inFlight \ {Token("active", 0, "none")}
    /\ UNCHANGED <<connVars, component, alertCache, dashVars>>

\* loadAllAlerts up to its first await (called directly)
SvcLoadAllAlerts ==
    /\ IsService
    /\ CanFetch(Token("history", 0, "none"))
    /\ inFlight' = inFlight \cup {Token("history", 0, "none")}
    /\ UNCHANGED <<connVars, component, alertCache, dashVars>>

\* loadAllAlerts after response.json(): alertCache.all = data.alerts
SvcLoadAllAlertsThen(page) ==
    /\ IsService
    /\ Token("history", 0, "none") \in inFlight
    /\ alertCache' = [alertCache EXCEPT !.all = page]
    /\ inFlight' = inFlight \ {Token("history", 0, "none")}
    /\ Publish(loadAllAlertsEvent(page))
    /\ UNCHANGED <<channelVars, alertListeners, component, dashVars>>

\* loadAllAlerts: fetch rejected or !response.ok
SvcLoadAllAlertsCatch ==
    /\ IsService
    /\ Token("history", 0, "none") \in inFlight
    /\ inFlight' = inFlight \ {Token("history", 0, "none")}
    /\ UNCHANGED <<connVars, component, alertCache, dashVars>>

\* getAlert up to its first await: a cached alert is returned, no fetch
SvcGetAlert(alertId) ==
    /\ IsService
    /\ IF Has(alertCache.active, alertId) \/ Has(alertCache.acknowledged, alertId)
       THEN UNCHANGED inFlight
       ELSE /\ CanFetch(Token("get", alertId, "none"))
            /\ inFlight' = inFlight \cup {Token("get", alertId, "none")}
    /\ UNCHANGED <<connVars, component, alertCache, dashVars>>

\* getAlert after response.json()
SvcGetAlertThen(alertId, alert) ==
    /\ IsService
    /\ Token("get", alertId, "none") \in inFlight
    /\ alert.id = alertId
    /\ alertCache' = getAlertStore(alertCache, alertId, alert)
    /\ inFlight' = inFlight \ {Token("get", alertId, "none")}
    /\ UNCHANGED <<connVars, component, dashVars>>

\* getAlert: fetch rejected or !response.ok, the error is rethrown
SvcGetAlertCatch(alertId) ==
    /\ IsService
    /\ Token("get", alertId, "none") \in inFlight
    /\ inFlight' = inFlight \ {Token("get", alertId, "none")}
    /\ UNCHANGED <<connVars, component, alertCache, dashVars>>

\* takeAction up to its first await; the action goes into the request
\* body, the continuation reads it for its error message only
SvcTakeAction(alertId, action) ==
    /\ IsService
    /\ action \in Actions
    /\ CanFetch(Token("action", alertId, "none"))
    /\ inFlight' = inFlight \cup {Token("action", alertId, "none")}
    /\ UNCHANGED <<connVars, component, alertCache, dashVars>>

\* takeAction after response.json(): result.alert, when present, is
\* applied; result.success is not read
SvcTakeActionThen(alertId, result) ==
    /\ IsService
    /\ Token("action", alertId, "none") \in inFlight
    /\ result.alert = NoAlert \/ result.alert.id = alertId
    /\ alertCache' = takeActionThen(alertCache, result)
    /\ inFlight' = inFlight \ {Token("action", alertId, "none")}
    /\ Publish(takeActionEvent(result))
    /\ UNCHANGED <<channelVars, alertListeners, component, dashVars>>

\* takeAction: fetch rejected or !response.ok, the error is rethrown
SvcTakeActionCatch(alertId) ==
    /\ IsService
    /\ Token("action", alertId, "none") \in inFlight
    /\ inFlight' = inFlight \ {Token("action", alertId, "none")}
    /\ UNCHANGED <<connVars, component, alertCache, dashVars>>

-----------------------------------------------------------------------------
(* SecurityAlertsDashboard: handlers *)

DashNow == Dash(activeAlerts, acknowledgedAlerts, alertsQueue)

\* the dashboard's methods write its collections, never the panel's counts
SetDash(dash) ==
    /\ activeAlerts' = dash.activeAlerts
    /\ acknowledgedAlerts' = dash.acknowledgedAlerts
    /\ alertsQueue' = dash.alertsQueue
    /\ alertCounts' = alertCounts

\* socket.onmessage, type 'new_alert' (also UnifiedControlPanel's new_alert)
DashNewAlert(alert) ==
    /\ IsDashboard
    /\ SetDash(addAlert(DashNow, alert))
    /\ UNCHANGED <<connVars, component, alertCache, inFlight>>

\* socket.onmessage, type 'update_alert': data.alert.id throws on a
\* missing alert (also UnifiedControlPanel's alert_update)
DashUpdateAlert(alert) ==
    /\ IsDashboard
    /\ SetDash(IF alert = NoAlert THEN DashNow
               ELSE updateAlert(DashNow, alert.id, alert))
    /\ UNCHANGED <<connVars, component, alertCache, inFlight>>

\* socket.onmessage, any other type or a JSON.parse failure
DashBadMessage ==
    /\ IsDashboard
    /\ UNCHANGED <<connVars, component, alertCache, dashVars, inFlight>>

\* loadAlerts up to the fetch
DashLoadAlerts ==
    /\ IsDashboard
    /\ CanFetch(Token("loadAlerts", 0, "none"))
    /\ inFlight' = inFlight \cup {Token("loadAlerts", 0, "none")}
    /\ UNCHANGED <<connVars, component, alertCache, dashVars>>

\* loadAlerts, .then(data => ...)
DashLoadAlertsThen(payload) ==
    /\ IsDashboard
    /\ Token("loadAlerts", 0, "none") \in inFlight
    /\ SetDash(loadAlertsThen(DashNow, payload))
    /\ inFlight' = inFlight \ {Token("loadAlerts", 0, "none")}
    /\ UNCHANGED <<connVars, component, alertCache>>

\* loadAlerts, .catch: fetch rejected or the body is not JSON
DashLoadAlertsCatch ==
    /\ IsDashboard
    /\ Token("loadAlerts", 0, "none") \in inFlight
    /\ inFlight' = inFlight \ {Token("loadAlerts", 0, "none")}
    /\ UNCHANGED <<connVars, component, alertCache, dashVars>>

\* executeAction acknowledging at once, before the server has answered
DashExecuteActionOptimistic(action, alertId) ==
    /\ IsDashboard
    /\ IF Has(activeAlerts, alertId)
       THEN /\ CanFetch(Token("action", alertId, action))
            /\ inFlight' = inFlight \cup {Token("action", alertId, action)}
            /\ SetDash(IF action = "acknowledge"
                       THEN acknowledgeAlert(DashNow, alertId)
                       ELSE DashNow)
       ELSE UNCHANGED <<inFlight, dashVars>>
    /\ UNCHANGED <<connVars, component, alertCache>>

\* executeAction up to the fetch: returns at once for an id not active
DashExecuteAction(action, alertId) ==
    /\ IsDashboard
    /\ IF Has(activeAlerts, alertId)
       THEN /\ CanFetch(Token("action", alertId, action))
            /\ inFlight' = inFlight \cup {Token("action", alertId, action)}
       ELSE UNCHANGED inFlight
    /\ UNCHANGED <<connVars, component, alertCache, dashVars>>

\* executeAction, .then(data => ...)
DashExecuteActionThen(action, alertId, data) ==
    /\ IsDashboard
    /\ Token("action", alertId, action) \in inFlight
    /\ data.alert = NoAlert \/ data.alert.id = alertId
    /\ SetDash(executeActionThen(DashNow, action, alertId, data))
    /\ inFlight' = inFlight \ {Token("action", alertId, action)}
    /\ UNCHANGED <<connVars, component, alertCache>>

\* executeAction, .catch
DashExecuteActionCatch(action, alertId) ==
    /\ IsDashboard
    /\ Token("action", alertId, action) \in inFlight
    /\ inFlight' = inFlight \ {Token("action", alertId, action)}
    /\ UNCHANGED <<connVars, component, alertCache, dashVars>>

\* updateAlertStatus, as UnifiedControlPanel.executeAction calls it
DashUpdateAlertStatus(alertId, status) ==
    /\ IsDashboard
    /\ SetDash(updateAlertStatus(DashNow, alertId, status))
    /\ UNCHANGED <<connVars, component, alertCache, inFlight>>

-----------------------------------------------------------------------------
(* AlertService: the push channel *)

storeVars == <<alertCache, dashVars>>

SvcNow ==
    Svc(sockets, socket, timers, reconnectTimer, reconnectAttempts,
        reconnectDelay)

SetSvc(svc) ==
    /\ sockets' = svc.sockets
    /\ socket' = svc.socket
    /\ timers' = svc.timers
    /\ reconnectTimer' = svc.reconnectTimer
    /\ reconnectAttempts' = svc.reconnectAttempts
    /\ reconnectDelay' = svc.reconnectDelay

\* how many sockets and timers can still deliver an event
Busy == Cardinality(Unclosed(sockets)) + Cardinality(PendingTimers(timers))

\* connect() called from outside
SvcConnect(ok) ==
    /\ IsService
    /\ Busy < MaxChannels
    /\ SetSvc(connect(SvcNow, ok, 0))
    /\ UNCHANGED <<component, storeVars, inFlight, alertListeners, calls, outbox,
                   destroyed, dashAttempts>>

\* requestActiveAlerts that asks for nothing
requestActiveAlertsNever(svc) == UNCHANGED <<outbox, inFlight>>

\* requestActiveAlerts: over the socket when this.socket is open, else
\* loadActiveAlerts() up to its fetch
requestActiveAlerts(svc) ==
    IF svc.socket # 0 /\ svc.sockets[svc.socket] = "open"
    THEN /\ outbox < MaxOutbox
         /\ outbox' = outbox + 1
         /\ UNCHANGED inFlight
    ELSE /\ Token("active", 0, "none") \notin inFlight
         /\ CanFetch(Token("active", 0, "none"))
         /\ inFlight' = inFlight \cup {Token("active", 0, "none")}
         /\ UNCHANGED outbox

\* handleSocketOpen, the open event of socket s
SvcSocketOpen(s) ==
    /\ IsService
    /\ sockets[s] = "connecting"
    /\ LET opened == [SvcNow EXCEPT !.sockets[s] = "open",
                                    !.reconnectAttempts = 0,
                                    !.reconnectDelay = InitialDelay]
       IN  /\ SetSvc(opened)
           /\ requestActiveAlerts(opened)
    /\ UNCHANGED <<component, storeVars, alertListeners, calls, destroyed,
                   dashAttempts>>

\* handleSocketClose, the close event of socket s (clean or not)
SvcSocketClose(s) ==
    /\ IsService
    /\ sockets[s] # "closed"
    /\ SetSvc(scheduleReconnect([SvcNow EXCEPT !.sockets[s] = "closed"], 0))
    /\ UNCHANGED <<component, storeVars, inFlight, alertListeners, calls, outbox,
                   destroyed, dashAttempts>>

\* handleSocketError: the error is logged
SvcSocketError(s) ==
    /\ IsService
    /\ sockets[s] \in {"connecting", "open"}
    /\ UNCHANGED vars

\* the callback scheduleReconnect gave to setTimeout
SvcTimerFire(t, ok) ==
    /\ IsService
    /\ timers[t].pending
    /\ LET fired == [SvcNow EXCEPT !.timers[t] = NoTimer,
                                   !.reconnectAttempts = @ + 1]
       IN  SetSvc(connect(fired, ok, t))
    /\ UNCHANGED <<component, storeVars, inFlight, alertListeners, calls, outbox,
                   destroyed, dashAttempts>>

\* the server reads a get_active_alerts message
SvcRequestTaken ==
    /\ IsService
    /\ outbox > 0
    /\ outbox' = outbox - 1
    /\ UNCHANGED <<component, storeVars, inFlight, sockets, socket, timers,
                   reconnectTimer, reconnectAttempts, reconnectDelay,
                   alertListeners, calls, destroyed, dashAttempts>>

\* subscribe(event, callback)
SvcSubscribe(event, callback) ==
    /\ IsService
    /\ alertListeners' = subscribe(alertListeners, event, callback)
    /\ calls' = calls
    /\ UNCHANGED <<component, storeVars, inFlight, sockets, socket, timers,
                   reconnectTimer, reconnectAttempts, reconnectDelay, outbox,
                   destroyed, dashAttempts>>

\* the function subscribe(event, callback) returned
SvcUnsubscribe(event, callback) ==
    /\ IsService
    /\ alertListeners' = unsubscribe(alertListeners, event, callback)
    /\ UNCHANGED <<component, storeVars, inFlight, channelVars, calls>>

\* destroy()
SvcDestroy ==
    /\ IsService
    /\ SetSvc(destroy(SvcNow))
    /\ alertListeners' = NoListeners
    /\ calls' = calls
    /\ destroyed' = TRUE
    /\ UNCHANGED <<component, storeVars, inFlight, outbox, dashAttempts>>

-----------------------------------------------------------------------------
(* SecurityAlertsDashboard: the push channel *)

\* the open event of a dashboard socket: the class sets no onopen
DashSocketOpen(s) ==
    /\ IsDashboard
    /\ sockets[s] = "connecting"
    /\ sockets' = [sockets EXCEPT ![s] = "open"]
    /\ dashAttempts' = 0
    /\ UNCHANGED <<component, storeVars, inFlight, socket, timers,
                   reconnectTimer, reconnectAttempts, reconnectDelay,
                   alertListeners, calls, outbox, destroyed>>

\* socket.onclose: setTimeout(() => this.connectWebSocket(), 5000)
DashSocketClose(s) ==
    /\ IsDashboard
    /\ sockets[s] # "closed"
    /\ sockets' = [sockets EXCEPT ![s] = "closed"]
    /\ LET t == CHOOSE t \in TimerIds : ~timers[t].pending
       IN  timers' = [timers EXCEPT ![t] = Timer(DashReconnectDelay * Scale)]
    /\ UNCHANGED <<component, storeVars, inFlight, socket, reconnectTimer,
                   reconnectAttempts, reconnectDelay, alertListeners, calls, outbox,
                   destroyed, dashAttempts>>

\* the timer's callback: connectWebSocket()
DashTimerFire(t) ==
    /\ IsDashboard
    /\ timers[t].pending
    /\ timers' = [timers EXCEPT ![t] = NoTimer]
    /\ LET s == CHOOSE s \in SocketIds : sockets[s] = "closed"
       IN  sockets' = [sockets EXCEPT ![s] = "connecting"]
    /\ dashAttempts' = Min(dashAttempts + 1, MaxObserved)
    /\ UNCHANGED <<component, storeVars, inFlight, socket, reconnectTimer,
                   reconnectAttempts, reconnectDelay, alertListeners, calls, outbox,
                   destroyed>>

-----------------------------------------------------------------------------
(* UnifiedControlPanel: its socket (/ws/dashboard), the messages it hands   *)
(* to the embedded dashboard, and its alert counts.  `socket` is the        *)
(* panel's this.socket; the socket the embedded dashboard opens for itself  *)
(* is left out.                                                             *)

PanelReconnectDelay == 5000 \* the setTimeout delay of the panel's onclose, ms

\* connectWebSocket of the panel: this.socket = new WebSocket(...); the
\* socket this.socket referred to is neither closed nor detached
PanelConnectWebSocket(socks) ==
    LET s == CHOOSE s \in SocketIds : socks[s] = "closed"
    IN  /\ sockets' = [socks EXCEPT ![s] = "connecting"]
        /\ socket' = s

\* socket.onopen of socket s: a notification
PanelSocketOpen(s) ==
    /\ IsDashboard
    /\ sockets[s] = "connecting"
    /\ sockets' = [sockets EXCEPT ![s] = "open"]
    /\ UNCHANGED <<component, storeVars, inFlight, socket, timers,
                   reconnectTimer, reconnectAttempts, reconnectDelay,
                   alertListeners, calls, outbox, destroyed, dashAttempts>>

\* socket.onclose of socket s: setTimeout(..., 5000)
PanelSocketClose(s) ==
    /\ IsDashboard
    /\ sockets[s] # "closed"
    /\ sockets' = [sockets EXCEPT ![s] = "closed"]
    /\ \E t \in TimerIds :
          /\ ~timers[t].pending
          /\ \A u \in TimerIds : u < t => timers[u].pending
          /\ timers' = [timers EXCEPT ![t] = Timer(PanelReconnectDelay * Scale)]
    /\ UNCHANGED <<component, storeVars, inFlight, socket, reconnectTimer,
                   reconnectAttempts, reconnectDelay, alertListeners, calls,
                   outbox, destroyed, dashAttempts>>

\* the timer's callback:
\* if (this.socket?.readyState === WebSocket.CLOSED) this.connectWebSocket()
PanelTimerFire(t) ==
    /\ IsDashboard
    /\ timers[t].pending
    /\ timers' = [timers EXCEPT ![t] = NoTimer]
    /\ IF socket # 0 /\ sockets[socket] = "closed"
       THEN PanelConnectWebSocket(sockets)
       ELSE UNCHANGED <<sockets, socket>>
    /\ UNCHANGED <<component, storeVars, inFlight, reconnectTimer,
                   reconnectAttempts, reconnectDelay, alertListeners, calls,
                   outbox, destroyed, dashAttempts>>

\* the 30 s interval of setupTimers, when it finds work:
\* if (this.socket && this.socket.readyState !== WebSocket.OPEN)
\*     this.connectWebSocket()
PanelWatchdog ==
    /\ IsDashboard
    /\ socket # 0
    /\ sockets[socket] # "open"
    /\ \E s \in SocketIds : sockets[s] = "closed"
    /\ PanelConnectWebSocket(sockets)
    /\ UNCHANGED <<component, storeVars, inFlight, timers, reconnectTimer,
                   reconnectAttempts, reconnectDelay, alertListeners, calls,
                   outbox, destroyed, dashAttempts>>

\* updateAlertCounter up to its fetch
updateAlertCounter ==
    /\ CanFetch(Token("count", 0, "none"))
    /\ inFlight' = inFlight \cup {Token("count", 0, "none")}

\* handleWebSocketMessage, case 'new_alert', of a message of socket s:
\* alertsPanel.addAlert(payload), updateAlertCounter()
PanelNewAlert(s, alert) ==
    /\ IsDashboard
    /\ sockets[s] = "open"
    /\ alert # NoAlert
    /\ SetDash(addAlert(DashNow, alert))
    /\ updateAlertCounter
    /\ UNCHANGED <<connVars, component, alertCache>>

\* handleWebSocketMessage, case 'alert_update', of a message of socket s:
\* alertsPanel.updateAlert(payload.id, payload)
PanelAlertUpdate(s, alert) ==
    /\ IsDashboard
    /\ sockets[s] = "open"
    /\ alert # NoAlert
    /\ SetDash(updateAlert(DashNow, alert.id, alert))
    /\ UNCHANGED <<connVars, component, alertCache, inFlight>>

\* updateAlertCounter, .then(data => ...): the counts are replaced by the
\* response
PanelCountThen(data) ==
    /\ IsDashboard
    /\ Token("count", 0, "none") \in inFlight
    /\ alertCounts' = data
    /\ inFlight' = inFlight \ {Token("count", 0, "none")}
    /\ UNCHANGED <<connVars, component, alertCache, activeAlerts,
                   acknowledgedAlerts, alertsQueue>>

\* updateAlertCounter, .catch
PanelCountCatch ==
    /\ IsDashboard
    /\ Token("count", 0, "none") \in inFlight
    /\ inFlight' = inFlight \ {Token("count", 0, "none")}
    /\ UNCHANGED <<connVars, component, alertCache, dashVars>>

\* loadInitialData, GET /alerts/active: alertsPanel.setAlerts is no method
\* of SecurityAlertsDashboard, the call throws before updateAlertCounter()
\* and the .catch shows a notification
PanelLoadInitialDataDone ==
    /\ IsDashboard
    /\ Token("active", 0, "none") \in inFlight
    /\ inFlight' = inFlight \ {Token("active", 0, "none")}
    /\ UNCHANGED <<connVars, component, alertCache, dashVars>>

-----------------------------------------------------------------------------
(* Specification *)

Next ==
    \/ \E alert \in ActiveAlerts \cup {NoAlert} : SvcNewAlert(alert)
    \/ \E alert \in Alerts \cup {NoAlert} : SvcUpdateAlert(alert)
    \/ \E payload \in ActivePayloads : SvcActiveAlerts(payload)
    \/ SvcBadMessage
    \/ SvcLoadActiveAlerts
    \/ \E payload \in ActivePayloads : SvcLoadActiveAlertsThen(payload)
    \/ SvcLoadActiveAlertsCatch
    \/ SvcLoadAllAlerts
    \/ \E page \in HistoryPages : SvcLoadAllAlertsThen(page)
    \/ SvcLoadAllAlertsCatch
    \/ \E alertId \in AlertIds : SvcGetAlert(alertId)
    \/ \E alertId \in AlertIds, alert \in Alerts : SvcGetAlertThen(alertId, alert)
    \/ \E alertId \in AlertIds : SvcGetAlertCatch(alertId)
    \/ \E alertId \in AlertIds, action \in Actions : SvcTakeAction(alertId, action)
    \/ \E alertId \in AlertIds, result \in Results :
          SvcTakeActionThen(alertId, result)
    \/ \E alertId \in AlertIds : SvcTakeActionCatch(alertId)
    \/ \E alert \in ActiveAlerts \cup {NoAlert} : DashNewAlert(alert)
    \/ \E alert \in Alerts \cup {NoAlert} : DashUpdateAlert(alert)
    \/ DashBadMessage
    \/ DashLoadAlerts
    \/ \E payload \in Payloads : DashLoadAlertsThen(payload)
    \/ DashLoadAlertsCatch
    \/ \E alertId \in AlertIds, action \in Actions : DashExecuteAction(action, alertId)
    \/ \E alertId \in AlertIds, action \in Actions, data \in Results :
          DashExecuteActionThen(action, alertId, data)
    \/ \E alertId \in AlertIds, action \in Actions : DashExecuteActionCatch(action, alertId)
    \/ \E alertId \in AlertIds, status \in PanelStatuses :
          DashUpdateAlertStatus(alertId, status)

Spec == Init /\ [][Next]_vars

\* The push channel on its own: the store handlers are left out, and the
\* HTTP fallback of requestActiveAlerts finds the endpoint unreachable.
ConnInit ==
    \E ok \in BOOLEAN : Constructed(ok) /\ (ok \/ IsService)

ConnNext ==
    \/ \E ok \in BOOLEAN : SvcConnect(ok)
    \/ \E s \in SocketIds : SvcSocketOpen(s)
    \/ \E s \in SocketIds : SvcSocketClose(s)
    \/ \E s \in SocketIds : SvcSocketError(s)
    \/ \E t \in TimerIds, ok \in BOOLEAN : SvcTimerFire(t, ok)
    \/ SvcRequestTaken
    \/ SvcDestroy
    \/ SvcLoadActiveAlertsCatch
    \/ \E s \in SocketIds : DashSocketOpen(s)
    \/ \E s \in SocketIds : DashSocketClose(s)
    \/ \E t \in TimerIds : DashTimerFire(t)

ConnSpec == ConnInit /\ [][ConnNext]_vars

\* The push channel of a service that has subscribers.
LifecycleNext ==
    \/ ConnNext
    \/ \E event \in {"new", "*"} : SvcSubscribe(event, 1)

LifecycleSpec == ConnInit /\ [][LifecycleNext]_vars

\* Teardown with fetches in flight: the HTTP calls of AlertService, their
\* continuations, and destroy().
TeardownInit == Init /\ IsService

TeardownNext ==
    \/ SvcLoadActiveAlerts
    \/ \E payload \in ActivePayloads : SvcLoadActiveAlertsThen(payload)
    \/ SvcLoadActiveAlertsCatch
    \/ SvcLoadAllAlerts
    \/ \E page \in HistoryPages : SvcLoadAllAlertsThen(page)
    \/ SvcLoadAllAlertsCatch
    \/ \E alertId \in AlertIds : SvcGetAlert(alertId)
    \/ \E alertId \in AlertIds, alert \in Alerts : SvcGetAlertThen(alertId, alert)
    \/ \E alertId \in AlertIds : SvcGetAlertCatch(alertId)
    \/ \E alertId \in AlertIds, action \in Actions : SvcTakeAction(alertId, action)
    \/ \E alertId \in AlertIds, result \in Results :
          SvcTakeActionThen(alertId, result)
    \/ \E alertId \in AlertIds : SvcTakeActionCatch(alertId)
    \/ SvcDestroy

TeardownSpec == TeardownInit /\ [][TeardownNext]_vars

\* The reconnect cycle of AlertService: the events of its sockets and
\* timers, connect() and destroy().  The event loop runs every timer that
\* stays pending.
ReconnectInit == ConnInit /\ IsService

ReconnectNext ==
    \/ \E ok \in BOOLEAN : SvcConnect(ok)
    \/ \E s \in SocketIds : SvcSocketOpen(s)
    \/ \E s \in SocketIds : SvcSocketClose(s)
    \/ \E s \in SocketIds : SvcSocketError(s)
    \/ \E t \in TimerIds, ok \in BOOLEAN : SvcTimerFire(t, ok)
    \/ SvcRequestTaken
    \/ SvcLoadActiveAlertsCatch
    \/ SvcDestroy

FairConnSpec ==
    /\ ReconnectInit
    /\ [][ReconnectNext]_vars
    /\ \A t \in TimerIds : WF_vars(\E ok \in BOOLEAN : SvcTimerFire(t, ok))

\* Snapshots with a subscriber: the active alerts arrive by push
\* (active_alerts) and by pull (GET /alerts/active), between messages that
\* change single alerts.
SnapshotInit == Init /\ IsService

SnapshotNext ==
    \/ \E event \in {"load", "*"} : SvcSubscribe(event, 1)
    \/ \E alert \in ActiveAlerts : alert.status = "new" /\ SvcNewAlert(alert)
    \/ \E alert \in Alerts : alert.status = "acknowledged" /\ SvcUpdateAlert(alert)
    \/ \E payload \in ActivePayloads : SvcActiveAlerts(payload)
    \/ SvcLoadActiveAlerts
    \/ \E payload \in ActivePayloads : SvcLoadActiveAlertsThen(payload)
    \/ SvcLoadActiveAlertsCatch
    \/ \E page \in HistoryPages : SvcLoadAllAlertsThen(page)
    \/ SvcLoadAllAlertsCatch

SnapshotSpec == SnapshotInit /\ [][SnapshotNext]_vars

\* Subscribers and events: callbacks are registered and removed between
\* the requests that acknowledge one alert, the update_alert the server
\* pushes while such a request is pending, and the responses.
HubEvents == {"new", "update", "*"}
HubAlerts == {alert \in Alerts : alert.id = 101}

HubInit == Init /\ IsService

HubNext ==
    \/ \E event \in HubEvents, callback \in Callbacks : SvcSubscribe(event, callback)
    \/ \E event \in HubEvents, callback \in Callbacks : SvcUnsubscribe(event, callback)
    \/ \E alert \in HubAlerts :
          /\ alert.status = "acknowledged"
          /\ Token("action", 101, "none") \in inFlight
          /\ SvcUpdateAlert(alert)
    \/ SvcTakeAction(101, "acknowledge")
    \/ \E result \in Results :
          /\ result.success
          /\ result.alert \in {NoAlert, [id |-> 101, status |-> "acknowledged"]}
          /\ SvcTakeActionThen(101, result)
    \/ SvcTakeActionCatch(101)

HubSpec == HubInit /\ [][HubNext]_vars

\* The callbacks of one event: three callbacks are registered for 'update'
\* and removed, between update_alert messages that settle one alert.
OrderCallbacks == {1, 2, 3}

OrderInit == Init /\ IsService

OrderNext ==
    \/ \E callback \in OrderCallbacks : SvcSubscribe("update", callback)
    \/ \E callback \in OrderCallbacks : SvcUnsubscribe("update", callback)
    \/ \E alert \in HubAlerts :
          alert.status \in {"acknowledged", "resolved"} /\ SvcUpdateAlert(alert)

OrderSpec == OrderInit /\ [][OrderNext]_vars

\* The panel: new UnifiedControlPanel() has constructed the dashboard
\* (whose loadAlerts fetch is pending), created its own socket and issued
\* the fetch of loadInitialData.  The server answers GET /alerts/count with
\* the counts of the alerts the client holds as active.
PanelInit ==
    /\ component = "SecurityAlertsDashboard"
    /\ alertCache = EmptyCache
    /\ activeAlerts = EmptyMap
    /\ acknowledgedAlerts = EmptyMap
    /\ alertsQueue = <<>>
    /\ alertCounts = NoCounts
    /\ inFlight = {Token("loadAlerts", 0, "none"), Token("active", 0, "none")}
    /\ sockets = [s \in SocketIds |-> IF s = 1 THEN "connecting" ELSE "closed"]
    /\ socket = 1
    /\ timers = [t \in TimerIds |-> NoTimer]
    /\ reconnectTimer = 0
    /\ reconnectAttempts = 0
    /\ reconnectDelay = InitialDelay
    /\ alertListeners = NoListeners
    /\ calls = <<>>
    /\ outbox = 0
    /\ destroyed = FALSE
    /\ dashAttempts = 0

PanelNext ==
    \/ \E s \in SocketIds : PanelSocketOpen(s)
    \/ \E s \in SocketIds : PanelSocketClose(s)
    \/ \E t \in TimerIds : PanelTimerFire(t)
    \/ PanelWatchdog
    \/ \E s \in SocketIds, alert \in ActiveAlerts :
          alert.status = "new" /\ PanelNewAlert(s, alert)
    \/ \E s \in SocketIds, alert \in Alerts :
          alert.status = "acknowledged" /\ PanelAlertUpdate(s, alert)
    \/ \E data \in CountsData :
          data = Counts(activeAlerts) /\ PanelCountThen(data)
    \/ PanelCountCatch
    \/ PanelLoadInitialDataDone
    \/ \E payload \in ActivePayloads :
          /\ Len(payload.list) <= 1
          /\ \A i \in 1..Len(payload.list) : payload.list[i].status = "new"
          /\ DashLoadAlertsThen(payload)
    \/ DashLoadAlertsCatch

PanelSpec == PanelInit /\ [][PanelNext]_vars

-----------------------------------------------------------------------------
(* Properties *)

SettledStatuses == {"acknowledged", "resolved", "false_alarm"}

\* the partition the data model assigns to a status
PartitionOf(status) ==
    IF status \in ActiveStatuses THEN "active"
    ELSE IF status \in SettledStatuses THEN "settled"
    ELSE "none"

\* C1: no alert id is held in the active and in the settled partition at
\* the same time, in AlertService and in SecurityAlertsDashboard.
C1_NeverInBothPartitions ==
    /\ Keys(alertCache.active) \cap Keys(alertCache.acknowledged) = {}
    /\ Keys(activeAlerts) \cap Keys(acknowledgedAlerts) = {}

\* C2: every alert in the active partition has status new or in_progress,
\* every alert in the settled partition has status acknowledged, resolved
\* or false_alarm.
C2_PlacementFollowsStatus ==
    \A id \in AlertIds :
        /\ Has(alertCache.active, id) =>
              alertCache.active[id].status \in ActiveStatuses
        /\ Has(alertCache.acknowledged, id) =>
              alertCache.acknowledged[id].status \in SettledStatuses
        /\ Has(activeAlerts, id) =>
              activeAlerts[id].status \in ActiveStatuses
        /\ Has(acknowledgedAlerts, id) =>
              acknowledgedAlerts[id].status \in SettledStatuses

C4_UpdateRecomputesPartition ==
    \A alert \in Alerts :
        /\ WhereOf(alertCache.active, alertCache.acknowledged, alert.id) # "unseen"
           => LET cache == processAlertUpdate(alertCache, alert)
              IN  WhereOf(cache.active, cache.acknowledged, alert.id)
                     = PartitionOf(alert.status)
        /\ WhereOf(activeAlerts, acknowledgedAlerts, alert.id) # "unseen"
           => LET dash == updateAlert(DashNow, alert.id, alert)
              IN  /\ WhereOf(dash.activeAlerts, dash.acknowledgedAlerts, alert.id)
                        = PartitionOf(alert.status)
                  /\ Range(dash.alertsQueue) = Keys(dash.activeAlerts)

\* C5: a new_alert for an id already in the active partition replaces the
\* stored alert and leaves the ordered list as it was: one entry for the
\* id, at its old position, nothing prepended.
C5_DuplicateNewAlertKeepsOneEntry ==
    \A alert \in ActiveAlerts :
        /\ Has(alertCache.active, alert.id)
           => LET cache == processNewAlert(alertCache, alert)
              IN  /\ cache.active[alert.id] = alert
                  /\ cache.all = alertCache.all
        /\ Has(activeAlerts, alert.id)
           => LET dash == addAlert(DashNow, alert)
              IN  /\ dash.activeAlerts[alert.id] = alert
                  /\ dash.alertsQueue = alertsQueue

\* C6: a new_alert for an id the store does not hold inserts the alert into
\* the active partition and puts its id at the front of the ordered list,
\* ahead of every id that was there, whatever the alerts' timestamps.
C6_NewAlertGoesToFront ==
    \A alert \in ActiveAlerts :
        /\ WhereOf(alertCache.active, alertCache.acknowledged, alert.id) = "unseen"
           => LET cache == processNewAlert(alertCache, alert)
              IN  /\ cache.active[alert.id] = alert
                  /\ cache.all = <<alert.id>> \o alertCache.all
        /\ WhereOf(activeAlerts, acknowledgedAlerts, alert.id) = "unseen"
           => LET dash == addAlert(DashNow, alert)
              IN  /\ dash.activeAlerts[alert.id] = alert
                  /\ dash.alertsQueue = <<alert.id>> \o alertsQueue

\* C6 witness: both ids are active and unsettled, the one that came second
\* is queued ahead of the first.
C6_Witness ==
    /\ IsDashboard
    /\ alertsQueue = <<102, 101>>
    /\ Keys(activeAlerts) = {101, 102}
    /\ Keys(acknowledgedAlerts) = {}
    /\ inFlight = {}

\* C7: a new_alert for an id held in the settled partition moves the entry
\* back: afterwards the id is active, at the front of the ordered list, and
\* no longer settled.
C7_NewAlertLeavesSettled ==
    \A alert \in ActiveAlerts :
        /\ Has(alertCache.acknowledged, alert.id)
           => LET cache == processNewAlert(alertCache, alert)
              IN  /\ cache.active[alert.id] = alert
                  /\ Head(cache.all) = alert.id
                  /\ ~Has(cache.acknowledged, alert.id)
        /\ Has(acknowledgedAlerts, alert.id)
           => LET dash == addAlert(DashNow, alert)
              IN  /\ dash.activeAlerts[alert.id] = alert
                  /\ Head(dash.alertsQueue) = alert.id
                  /\ ~Has(dash.acknowledgedAlerts, alert.id)

\* C8: applying a snapshot a second time changes nothing: same active
\* partition, same settled partition, same ordered list.
C8_SnapshotIdempotent ==
    /\ IsService =>
          \A payload \in ActivePayloads :
              LET once == processActiveAlerts(alertCache, payload)
              IN  processActiveAlerts(once, payload) = once
    /\ IsDashboard =>
          \A payload \in Payloads :
              LET once == loadAlertsThen(DashNow, payload)
              IN  loadAlertsThen(once, payload) = once

\* C8 witness: a snapshot holding 102 alone has replaced a store in which
\* 101 was active and queued ahead of 102.
C8_Witness ==
    /\ IsDashboard
    /\ alertsQueue = <<102>>
    /\ Keys(activeAlerts) = {102}
    /\ Keys(acknowledgedAlerts) = {}
    /\ inFlight = {}

\* C9: after a snapshot is applied the active partition (and the
\* dashboard's queue) holds exactly the snapshot's ids, and none of them is
\* settled.
C9_SnapshotReplacesActive ==
    \A list \in ActiveLists :
        LET payload == [defined |-> TRUE, list |-> list]
            cache == processActiveAlerts(alertCache, payload)
            dash == loadAlertsThen(DashNow, payload)
        IN  /\ Keys(cache.active) = Ids(list)
            /\ Keys(cache.acknowledged) \cap Ids(list) = {}
            /\ Keys(dash.activeAlerts) = Ids(list)
            /\ Range(dash.alertsQueue) = Ids(list)
            /\ Keys(dash.acknowledgedAlerts) \cap Ids(list) = {}

\* C10: the step that dispatches an operator action (takeAction or
\* executeAction up to its fetch) changes neither partition nor the ordered
\* list.
C10_DispatchLeavesStore ==
    [][(\E token \in inFlight' \ inFlight : token.kind = "action")
          => UNCHANGED <<alertCache, dashVars>>]_vars

\* C10 witness: an acknowledge is in flight for an alert that is still
\* active, queued and not settled.
C10_Witness ==
    /\ IsDashboard
    /\ \E token \in inFlight :
          /\ token.kind = "action"
          /\ token.action = "acknowledge"
          /\ Has(activeAlerts, token.id)
          /\ ~Has(acknowledgedAlerts, token.id)
          /\ token.id \in Range(alertsQueue)

\* an action response for alertId, as the server can send it
ResultsFor(alertId) ==
    {result \in Results : result.alert = NoAlert \/ result.alert.id = alertId}

\* C11: a failed action (here: a response whose success is false) leaves
\* both partitions and the ordered list exactly as they were, in
\* AlertService and in SecurityAlertsDashboard.
C11_FailedActionLeavesStore ==
    \A token \in inFlight :
        token.kind = "action" =>
            \A result \in ResultsFor(token.id) :
                ~result.success =>
                    /\ IsService =>
                          takeActionThen(alertCache, result) = alertCache
                    /\ IsDashboard =>
                          executeActionThen(DashNow, token.action, token.id,
                                            result) = DashNow

\* C12: after a successful action whose response embeds an alert, the
\* store holds exactly the server's object for the id, in the partition of
\* its status and in no other, queued only when active.
C12_ServerAlertStoredByStatus ==
    \A token \in inFlight :
        token.kind = "action" =>
            \A result \in ResultsFor(token.id) :
                result.success /\ result.alert # NoAlert =>
                    /\ IsService /\ Has(alertCache.active, token.id) =>
                          LET cache == takeActionThen(alertCache, result)
                          IN  IF PartitionOf(result.alert.status) = "active"
                              THEN /\ cache.active[token.id] = result.alert
                                   /\ ~Has(cache.acknowledged, token.id)
                              ELSE /\ cache.acknowledged[token.id] = result.alert
                                   /\ ~Has(cache.active, token.id)
                    /\ IsDashboard /\ Has(activeAlerts, token.id) =>
                          LET dash == executeActionThen(DashNow, token.action,
                                                        token.id, result)
                          IN  IF PartitionOf(result.alert.status) = "active"
                              THEN /\ dash.activeAlerts[token.id] = result.alert
                                   /\ ~Has(dash.acknowledgedAlerts, token.id)
                                   /\ token.id \in Range(dash.alertsQueue)
                              ELSE /\ dash.acknowledgedAlerts[token.id] = result.alert
                                   /\ ~Has(dash.activeAlerts, token.id)
                                   /\ token.id \notin Range(dash.alertsQueue)

\* C13: at most one socket of the service is connecting or open at any
\* time.
C13_AtMostOneLiveChannel ==
    IsService => Cardinality(Live(sockets)) <= 1

\* timer t is scheduled by the step
Scheduled(t) == ~timers[t].pending /\ timers'[t].pending

\* 1000 * 1.5^n capped at 30000, n = 0..9, in units of 1/Scale ms:
\* 1000, 1500, 2250, 3375, 5062.5, 7593.75, 11390.625, 17085.9375,
\* 25628.90625, 30000
ExactDelays ==
    <<512000, 768000, 1152000, 1728000, 2592000, 3888000, 5832000, 8748000,
      13122000, 15360000>>

\* the delays the specification lists, ms
ClaimedDelays ==
    <<1000, 1500, 2250, 3375, 5062, 7593, 11390, 17084, 25626, 30000>>

\* C14 (as amended): the delay scheduleReconnect gives to setTimeout after
\* n attempts is min(30000, 1000 * 1.5^n) ms, unrounded: the n-th entry of
\* ExactDelays.
C14_BackoffDelaysExact ==
    [][\A t \in TimerIds :
          IsService /\ Scheduled(t) =>
              timers'[t].delay = ExactDelays[reconnectAttempts' + 1]]_vars

\* C14 (as claimed): the delay after n attempts is, in whole milliseconds,
\* the n-th of 1000, 1500, 2250, 3375, 5062, 7593, 11390, 17084, 25626,
\* 30000.
C14_BackoffDelaysAsClaimed ==
    [][\A t \in TimerIds :
          IsService /\ Scheduled(t) =>
              timers'[t].delay \div Scale = ClaimedDelays[reconnectAttempts' + 1]]_vars

\* C14 witness: the tenth delay is pending, capped at 30000 ms.
C14_Witness ==
    /\ IsService
    /\ reconnectAttempts = maxReconnectAttempts - 1
    /\ reconnectTimer # 0
    /\ timers[reconnectTimer] = Timer(DelayCap * Scale)

\* what a step does to a socket
Opens(s) == sockets[s] = "connecting" /\ sockets'[s] = "open"
Closes(s) == sockets[s] # "closed" /\ sockets'[s] = "closed"
\* closed without close() having been called on it
ClosesAbnormally(s) ==
    sockets[s] \in {"connecting", "open"} /\ sockets'[s] = "closed"
Created(s) == sockets[s] = "closed" /\ sockets'[s] = "connecting"

\* C15: once ten reconnect attempts have been made without an open, the
\* close of a socket schedules no timer and creates no socket, in
\* AlertService (reconnectAttempts) and in SecurityAlertsDashboard.
C15_NoReconnectAfterTenAttempts ==
    [][\A s \in SocketIds :
          /\ Closes(s)
          /\ \/ IsService /\ reconnectAttempts >= maxReconnectAttempts
             \/ IsDashboard /\ dashAttempts >= maxReconnectAttempts
          => /\ \A t \in TimerIds : ~Scheduled(t)
             /\ \A n \in SocketIds : ~Created(n)]_vars

\* C16: the close of a socket that had opened schedules a reconnect delayed
\* by 1000 ms, and none of the ten attempts is used at that point.
C16_FirstDelayAfterOpen ==
    [][IsService =>
          \A s \in SocketIds :
              sockets[s] = "open" /\ Closes(s) =>
                  /\ reconnectAttempts' = 0
                  /\ \A t \in TimerIds :
                        Scheduled(t) => timers'[t].delay = InitialDelay * Scale]_vars

\* C17: while the service is not torn down and fewer than ten attempts are
\* counted, a socket that closes without close() having been called (the
\* error event by itself is only logged, the close event reports the failure)
\* schedules a reconnect; a scheduled reconnect does not stay pending for
\* ever, and it stops being pending only by a connection attempt (the
\* callback of a timer, or connect() from outside) or by destroy().
C17_CloseLeadsToReconnect ==
    /\ [][IsService /\ ~destroyed /\ reconnectAttempts < maxReconnectAttempts =>
              \A s \in SocketIds :
                  ClosesAbnormally(s) => \E t \in TimerIds : Scheduled(t)]_vars
    /\ \A t \in TimerIds :
          (IsService /\ timers[t].pending) ~> ~timers[t].pending
    /\ [][IsService =>
              \A t \in TimerIds :
                  timers[t].pending /\ ~timers'[t].pending =>
                      \/ \E fired \in TimerIds, ok \in BOOLEAN :
                            SvcTimerFire(fired, ok)
                      \/ \E ok \in BOOLEAN : SvcConnect(ok)
                      \/ SvcDestroy]_vars

\* C17 witness: this.socket has closed without close() having been called,
\* after an earlier reconnect attempt, and the next reconnect is pending.
C17_Witness ==
    /\ IsService
    /\ ~destroyed
    /\ socket # 0
    /\ sockets[socket] = "closed"
    /\ reconnectAttempts = 1
    /\ reconnectTimer # 0
    /\ timers[reconnectTimer] = Timer(ExactDelays[2])

C19_TeardownIsFinal ==
    [][IsService /\ ~(\E ok \in BOOLEAN : SvcConnect(ok)) =>
          /\ destroyed' => PendingTimers(timers') = {}
          /\ destroyed /\ (\E s \in SocketIds : Created(s)) =>
                \E ok \in BOOLEAN : SvcConnect(ok)
          /\ ~destroyed /\ destroyed' => alertListeners' = NoListeners]_vars

\* C20: after destroy() the resolution of a fetch that was in flight
\* changes no part of alertCache.
C20_LateResolutionDiscarded ==
    [][IsService /\ destroyed /\ inFlight' # inFlight /\ inFlight' \subseteq inFlight
          => UNCHANGED alertCache]_vars

\* C21: while the service is not torn down and nothing is left that restores
\* the channel (every socket closed, no timer pending), a pull of the active
\* alerts (GET /alerts/active) is in flight.
C21_ClosedChannelKeepsPulling ==
    IsService /\ ~destroyed /\ Unclosed(sockets) = {} /\ PendingTimers(timers) = {}
        => Token("active", 0, "none") \in inFlight

\* C22: in the state the constructor leaves (the first socket connecting, or
\* the first reconnect pending when new WebSocket threw), a snapshot request
\* is outstanding: a get_active_alerts message or a GET /alerts/active.
C22_StartupRequestsSnapshot ==
    /\ IsService
    /\ ~destroyed
    /\ alertCache = EmptyCache
    /\ \E ok \in BOOLEAN : SvcNow = connect(NewService, ok, 0)
    => outbox > 0 \/ Token("active", 0, "none") \in inFlight

\* C23: a snapshot applied by pull (the continuation of GET /alerts/active)
\* and the same snapshot applied by push (active_alerts) give, from the same
\* state, the same store and the same callback invocations: the store with
\* its active alerts replaced by the snapshot's, and one 'load' carrying them
\* (neither publishes when the payload is no list).
C23_PullAndPushApplyAlike ==
    [][\A payload \in ActivePayloads :
        SvcActiveAlerts(payload) \/ SvcLoadActiveAlertsThen(payload)
            => /\ alertCache' = processActiveAlerts(alertCache, payload)
               /\ calls' =
                    IF payload.defined
                    THEN notifyAlertListeners(alertListeners, "load",
                            LoadData(SetEach(EmptyMap, payload.list)))
                    ELSE calls]_vars

\* a 'load' reached a subscriber while alerts of an earlier state were
\* settled, and a pull is in flight
C23_Witness ==
    /\ IsService
    /\ Token("active", 0, "none") \in inFlight
    /\ Len(calls) = 2
    /\ calls[1].data.active # EmptyMap
    /\ alertCache.acknowledged # EmptyMap

\* C24: of a push update and a pulled snapshot of the same alert, the one
\* applied last decides: after the snapshot's continuation every alert it
\* lists is in active with the snapshot's value and not in acknowledged, and
\* after an update of an alert the snapshot put in active the alert is in one
\* partition with the update's value and not in the other.
C24_LastAppliedWins ==
    [][IsService =>
        /\ \A payload \in ActivePayloads :
              payload.defined /\ SvcLoadActiveAlertsThen(payload)
                  => \A i \in 1..Len(payload.list) :
                        /\ alertCache'.active[payload.list[i].id] = payload.list[i]
                        /\ alertCache'.acknowledged[payload.list[i].id] = NoAlert
        /\ \A alert \in Alerts :
              alertCache.active[alert.id] # NoAlert /\ SvcUpdateAlert(alert)
                  => \/ /\ alertCache'.active[alert.id] = alert
                        /\ alertCache'.acknowledged[alert.id] = NoAlert
                     \/ /\ alertCache'.active[alert.id] = NoAlert
                        /\ alertCache'.acknowledged[alert.id] = alert]_vars

\* C25: an alert that new_alert stored after a snapshot was applied (its 'new'
\* is the latest event published, and the fetch that snapshot's
\* loadAllAlerts() issued is still pending) is still in alertCache.all after
\* that fetch's continuation.
C25_SnapshotStepsKeepLaterAlerts ==
    [][IsService /\ calls # <<>> /\ calls[Len(calls)].event = "new"
        => \A page \in HistoryPages :
              SvcLoadAllAlertsThen(page)
                  => calls[Len(calls)].data.alert.id \in Range(alertCache'.all)]_vars

\* the invocations a publish of an event made are: one callback(data) for
\* each callback registered for the event, one callback(event, data) for
\* each callback registered for '*', and no other
DeliveredOnce(made, event, data) ==
    /\ \A callback \in Range(alertListeners[event]) :
          Cardinality({i \in 1..Len(made) :
              made[i] = Call(callback, event, "none", data)}) = 1
    /\ \A callback \in Range(alertListeners["*"]) :
          Cardinality({i \in 1..Len(made) :
              made[i] = Call(callback, "*", event, data)}) = 1
    /\ Len(made) = Cardinality(Range(alertListeners[event]))
                     + Cardinality(Range(alertListeners["*"]))

\* C26: publishing invokes exactly once each callback registered for the
\* event, with the payload, and each callback registered for '*', with the
\* event and the payload, and no callback registered for another event only:
\* checked on every 'update' that update_alert and an action response
\* publish.
C26_PublishInvokesEachOnce ==
    [][IsService =>
        /\ \A alert \in Alerts :
              SvcUpdateAlert(alert) => DeliveredOnce(calls', "update", AlertData(alert))
        /\ \A alertId \in AlertIds, result \in Results :
              result.alert # NoAlert /\ SvcTakeActionThen(alertId, result)
                  => DeliveredOnce(calls', "update", AlertData(result.alert))]_vars

\* an 'update' went to the callback registered for it and to the one
\* registered for '*', in that order, and not to the one registered for
\* 'new' only
C26_Witness ==
    /\ IsService
    /\ alertListeners["update"] = <<1>>
    /\ alertListeners["*"] = <<2>>
    /\ alertListeners["new"] = <<2, 1>>
    /\ calls = <<Call(1, "update", "none", AlertData([id |-> 101, status |-> "acknowledged"])),
                 Call(2, "*", "update", AlertData([id |-> 101, status |-> "acknowledged"]))>>

\* the callbacks a publish of an event is due to invoke, in order
Due(event) == alertListeners[event] \o alertListeners["*"]

\* C27: a callback that throws does not stop the delivery, the publisher
\* does not fail, and the callback stays registered: when update_alert or an
\* action response publishes 'update', every callback due after a throwing
\* one is still invoked, the handler's store change stands, and the
\* registrations are as before (so the next publish invokes it again).
C27_ThrowingCallbackIsContained ==
    [][IsService =>
        \A alert \in Alerts :
            (\/ SvcUpdateAlert(alert)
             \/ \E alertId \in AlertIds, result \in Results :
                   result.alert = alert /\ SvcTakeActionThen(alertId, result))
            => /\ alertListeners' = alertListeners
               /\ alertCache' = processAlertUpdate(alertCache, alert)
               /\ \A i \in 1..Len(Due("update")) :
                     Due("update")[i] \in ThrowingCallbacks
                         => \A j \in i..Len(Due("update")) :
                               /\ j <= Len(calls')
                               /\ calls'[j].callback = Due("update")[j]
                               /\ calls'[j].data = AlertData(alert)]_vars

\* the throwing callback was invoked first, the delivery went on to the
\* callback after it, and both are still registered
C27_Witness ==
    /\ IsService
    /\ alertListeners["update"] = <<2, 1>>
    /\ alertCache.acknowledged[101] # NoAlert
    /\ Len(calls) >= 2
    /\ calls[1].callback \in ThrowingCallbacks
    /\ calls[2].callback = 1
    /\ calls[2].registered = "update"

\* C28: a confirmed transition reaches a listener at most once: when the
\* server has pushed update_alert for an alert and the response of the action
\* on it embeds the same alert, the continuation of the action does not
\* invoke again a callback the push has invoked for that alert.
C28_TransitionDeliveredOnce ==
    [][IsService =>
        \A alertId \in AlertIds, result \in Results :
            /\ result.alert # NoAlert
            /\ SvcTakeActionThen(alertId, result)
            => \A i \in 1..Len(calls), j \in 1..Len(calls') :
                  calls[i].data = AlertData(result.alert)
                      => calls'[j] # calls[i]]_vars

\* C29: a push message that is malformed (invalid JSON, no alert, no alerts)
\* or of an unknown type is dropped as a whole: the store is unchanged, no
\* event is published, and the channel is left as it was.
C29_MalformedMessageDropped ==
    [][(/\ IsService
        /\ \/ SvcBadMessage
           \/ SvcNewAlert(NoAlert)
           \/ SvcUpdateAlert(NoAlert)
           \/ SvcActiveAlerts(Undefined))
        => /\ alertCache' = alertCache
           /\ calls' = calls
           /\ channelVars' = channelVars]_vars

\* C30: a snapshot load that fails (HTTP error, network error, a body that
\* is no list) leaves the store as it was, in the service and in the
\* dashboard.
C30_FailedLoadKeepsStore ==
    [][/\ IsService /\ (SvcLoadActiveAlertsCatch \/ SvcLoadActiveAlertsThen(Undefined))
           => alertCache' = alertCache
       /\ IsDashboard /\ (DashLoadAlertsCatch \/ DashLoadAlertsThen(Undefined))
           => DashNow' = DashNow]_vars

\* C31: applying a snapshot (a list, by push or by pull) publishes exactly one
\* 'load', after the replacement: the active alerts are the snapshot's, each
\* callback registered for 'load' or for '*' is invoked once, every
\* invocation is of 'load', and each carries the active alerts as they are
\* after the replacement.
C31_OneLoadAfterReplacement ==
    [][IsService =>
        \A payload \in ActivePayloads :
            (/\ payload.defined
             /\ SvcActiveAlerts(payload) \/ SvcLoadActiveAlertsThen(payload))
            => /\ alertCache'.active = SetEach(EmptyMap, payload.list)
               /\ \A event \in {"load", "*"} :
                     \A callback \in Range(alertListeners[event]) :
                        Cardinality({i \in 1..Len(calls') :
                            /\ calls'[i].callback = callback
                            /\ calls'[i].registered = event}) = 1
               /\ \A i \in 1..Len(calls') :
                     /\ "load" \in {calls'[i].registered, calls'[i].event}
                     /\ calls'[i].data = LoadData(alertCache'.active)]_vars

\* a snapshot replaced one active alert by another and its 'load' carried
\* the store's new active alerts to the one callback registered for it
C31_Witness ==
    /\ IsService
    /\ alertListeners["load"] = <<1>>
    /\ alertListeners["*"] = <<>>
    /\ Len(calls) = 1
    /\ calls[1].data = LoadData(alertCache.active)
    /\ alertCache.active[102] # NoAlert
    /\ alertCache.active[101] = NoAlert
    /\ 101 \in Range(alertCache.all)

\* a comes before b in a sequence
Before(seq, a, b) ==
    \E i, j \in 1..Len(seq) : i < j /\ seq[i] = a /\ seq[j] = b

\* C32: the callbacks of an event are invoked in the order of their
\* registration: a callback that subscribes is due after every callback
\* registered before it, a removal leaves the order of the remaining
\* callbacks as it was, and a publish invokes the callbacks in that order.
C32_InvokedInRegistrationOrder ==
    [][IsService =>
        /\ \A callback \in OrderCallbacks :
              SvcSubscribe("update", callback)
                  => \A other \in Range(alertListeners["update"]) \ {callback} :
                        Before(alertListeners'["update"], other, callback)
        /\ \A callback \in OrderCallbacks :
              SvcSubscribe("update", callback) \/ SvcUnsubscribe("update", callback)
                  => \A a, b \in Range(alertListeners'["update"]) \ {callback} :
                        Before(alertListeners'["update"], a, b)
                            <=> Before(alertListeners["update"], a, b)
        /\ \A alert \in Alerts :
              SvcUpdateAlert(alert)
                  => [i \in 1..Len(calls') |-> calls'[i].callback]
                        = alertListeners["update"]]_vars

\* the latest 'update' went to the callbacks 1, 2, 3 in the order of their
\* registration, and callback 2 has since been removed and registered again
C32_Witness ==
    /\ IsService
    /\ alertListeners["update"] = <<1, 3, 2>>
    /\ [i \in 1..Len(calls) |-> calls[i].callback] = <<1, 2, 3>>
    /\ calls[1].data.alert.status = "resolved"

\* C33: a settled alert is retained: an id that is in the settled partition
\* (alertCache.acknowledged, acknowledgedAlerts) is, after every step, still
\* in the settled partition or in the active one.
C33_SettledAlertsRetained ==
    [][\A id \in AlertIds :
        /\ IsService /\ Has(alertCache.acknowledged, id)
              => Has(alertCache'.acknowledged, id) \/ Has(alertCache'.active, id)
        /\ IsDashboard /\ Has(acknowledgedAlerts, id)
              => Has(acknowledgedAlerts', id) \/ Has(activeAlerts', id)]_vars

\* C36: at most one reconnect timer of the service is armed, and it is the
\* one reconnectTimer refers to.
C36_OnlyReferencedTimerArmed ==
    IsService =>
        /\ Cardinality(PendingTimers(timers)) <= 1
        /\ \A t \in PendingTimers(timers) : reconnectTimer = t

\* C37: reconnectAttempts is within 0..maxReconnectAttempts.
C37_AttemptsWithinLimit ==
    IsService => reconnectAttempts \in 0..maxReconnectAttempts

\* C35: a disposer removes the subscription it was returned for and no
\* other: when a callback that is subscribed to an event subscribes to it a
\* second time and the disposer of the first subscription runs, the callback
\* is still registered for the event (the second subscription keeps
\* receiving), and the callbacks of every other event are as before.
C35_DisposerRemovesOnlyItsSubscription ==
    IsService =>
        \A event \in HubEvents, callback \in Callbacks :
            callback \in Range(alertListeners[event])
            => LET second == subscribe(alertListeners, event, callback)
                   disposed == unsubscribe(second, event, callback)
               IN  /\ callback \in Range(disposed[event])
                   /\ \A other \in EventNames \ {event} :
                         disposed[other] = alertListeners[other]

\* C34: the counts the panel shows are those of the store: whenever no
\* GET /alerts/count is pending, the count of each priority is the number
\* of alerts of that priority in the dashboard's active collection.
C34_CountsFollowStore ==
    IsDashboard /\ Token("count", 0, "none") \notin inFlight
        => \A priority \in Priorities :
              alertCounts[priority] = Counts(activeAlerts)[priority]

\* C38: the panel's reconnect timer and its watchdog never leave two of its
\* sockets connecting or open together, and no message is handled by a
\* socket other than this.socket.
C38_PanelHasOneLiveSocket ==
    IsDashboard =>
        \A s \in SocketIds :
            sockets[s] \in {"connecting", "open"} => s = socket

=============================================================================
